---- MODULE Spec2Model ----
(***************************************************************************)
(* Stall-detection termination callback of script/exercice7.py.            *)
(*                                                                         *)
(* The solver invokes callback(model, where, cbdata=...) during            *)
(* model.optimize().  The callback keeps, in a CallbackData object, the    *)
(* last gap it recorded and the time it recorded it, and calls             *)
(* model.terminate() when the gap has not improved by more than            *)
(* epsilon_to_compare_gap for more than max_time_between_gap_updates       *)
(* seconds.                                                                *)
(*                                                                         *)
(* Numbers.  A float read from the solver is a record [kind, val]: kind    *)
(* "fin" with an integer val, or kind "inf" (float('inf')).  A gap is a    *)
(* triple <<kind, num, den>>: the exact quotient num/den for kind "fin",   *)
(* float('inf') for "inf", a NaN for "nan".  Gaps are compared by exact    *)
(* cross-multiplication, i.e. the arithmetic is that of the reals: binary  *)
(* rounding of the quotient is not represented.  Time is in whole seconds. *)
(* The clock is sampled every ClockSteps seconds.                          *)
(*                                                                         *)
(* The module also holds the logical constraints of the unit-commitment    *)
(* models of script/exercice8.py (one constraint per unit and period) and  *)
(* script/exercice9.py (matrix form), as predicates over 0/1 assignments.  *)
(***************************************************************************)
EXTENDS Integers, Sequences, FiniteSets, TLC

VARIABLES
    last_gap,              \* cbdata.last_gap
    last_gap_change_time,  \* cbdata.last_gap_change_time: <<>> is None, <<t>> is t
    now,                   \* what time.time() returns
    terminated,            \* model.terminate() has been called
    terminateTime,         \* history: time of the latest model.terminate() (<<>> before)
    pc,                    \* "optimizing" while model.optimize() runs, then "done"
    status,                \* model.status once optimize() has returned
    last_call,             \* history: the most recent callback invocation
    seenSolution,          \* history: a MIP snapshot with solcount > 0 was evaluated
    firstSolutionTime,     \* history: time of the first such snapshot (<<>> before)
    scenarioStep,          \* history: snapshots of StallScenario matched so far, or -1
    allZeroObj,            \* history: every solution snapshot so far had best_obj == 0
    uc_init,               \* unit commitment: init_status[g]
    uc_u,                  \* unit commitment: values of the binaries u[g, t] chosen so far
    uc_v,                  \* unit commitment: values of the binaries v[g, t] chosen so far
    uc_w,                  \* unit commitment: values of the binaries w[g, t] chosen so far
    uc_terms,              \* the assignment satisfies the logical constraints of exercice8
    uc_matrix              \* the assignment satisfies the logical constraints of exercice9

ucVars == <<uc_init, uc_u, uc_v, uc_w, uc_terms, uc_matrix>>

vars == <<last_gap, last_gap_change_time, now, terminated, terminateTime, pc, status, last_call,
          seenSolution, firstSolutionTime, scenarioStep, allZeroObj, ucVars>>

----------------------------------------------------------------------------
(* Bounds of the model *)

MaxTime == 25

MaxSolCount == 1

\* periods of the unit-commitment horizon (the scripts use 24)
NumPeriods == 2

(* Program constants *)

max_time_between_gap_updates == 15

\* epsilon_to_compare_gap = 1e-4, as the fraction 1 / 10000
epsilon_to_compare_gap == <<1, 10000>>

----------------------------------------------------------------------------
(* Values *)

None == <<>>

Some(t) == <<t>>

Fin(n) == [kind |-> "fin", val |-> n]

FloatInf == [kind |-> "inf", val |-> 0]

Inf == <<"inf", 0, 1>>

NaN == <<"nan", 0, 1>>

NotComputed == <<"none", 0, 1>>

Abs(x) == IF x < 0 THEN -x ELSE x

RECURSIVE GCD(_, _)
GCD(a, b) == IF b = 0 THEN a ELSE GCD(b, a % b)

\* a/b - c/d > p/q for positive b, d, q, keeping the products small
RatDiffGT(a, b, c, d, p, q) ==
    LET n == a * d - c * b
        dd == b * d
        g == GCD(q, dd)
    IN (q \div g) * n > p * (dd \div g)

\* a/b - c/d >= p/q
RatDiffGE(a, b, c, d, p, q) ==
    LET n == a * d - c * b
        dd == b * d
        g == GCD(q, dd)
    IN (q \div g) * n >= p * (dd \div g)

\* g1 <= g2 as floats compare: false as soon as one side is a NaN
GapLE(g1, g2) ==
    CASE g1[1] = "nan" \/ g2[1] = "nan" -> FALSE
      [] g2[1] = "inf" -> TRUE
      [] g1[1] = "inf" -> FALSE
      [] OTHER -> g1[2] * g2[3] <= g2[2] * g1[3]

\* the two gaps are the same number
GapEq(g1, g2) == GapLE(g1, g2) /\ GapLE(g2, g1)

----------------------------------------------------------------------------
(* The callback, line by line *)

IsMIPAlways(where) == TRUE

\* if where != GRB.Callback.MIP: return
IsMIP(where) == where = "MIP"

NoSolutionNever(solcount) == FALSE

NoSolutionNonPositive(solcount) == solcount <= 0

\* if solcount == 0: return
NoSolution(solcount) == solcount = 0

\* max(1e-10, abs(best_obj)) for a finite non-zero best_obj: objective values are
\* integers here, so abs(best_obj) >= 1 and the floor 1e-10 is never the maximum
Divisor(best_obj) == Abs(best_obj.val)

\* if best_obj == 0: gap = inf  else: gap = abs(best_obj - best_bound) / max(...)
Gap(best_obj, best_bound) ==
    IF best_obj.kind = "fin" /\ best_obj.val = 0 THEN Inf
    ELSE IF best_obj.kind = "inf"
         THEN NaN                       \* inf / inf, or nan / inf
    ELSE IF best_bound.kind = "inf"
         THEN Inf                       \* inf / finite
    ELSE <<"fin", Abs(best_obj.val - best_bound.val), Divisor(best_obj)>>

\* if cbdata.last_gap == float('inf')
IsFirstSolutionNever(cb_gap) == FALSE

IsFirstSolution(cb_gap) == cb_gap[1] = "inf"

ImprovedOrEqual(cb_gap, gap) ==
    CASE cb_gap[1] = "nan" \/ gap[1] = "nan" -> FALSE
      [] gap[1] = "inf" -> FALSE
      [] cb_gap[1] = "inf" -> TRUE
      [] OTHER -> RatDiffGE(cb_gap[2], cb_gap[3], gap[2], gap[3],
                            epsilon_to_compare_gap[1], epsilon_to_compare_gap[2])

ImprovedReversed(cb_gap, gap) ==
    CASE cb_gap[1] = "nan" \/ gap[1] = "nan" -> FALSE
      [] cb_gap[1] = "inf" -> FALSE
      [] gap[1] = "inf" -> TRUE
      [] OTHER -> RatDiffGT(gap[2], gap[3], cb_gap[2], cb_gap[3],
                            epsilon_to_compare_gap[1], epsilon_to_compare_gap[2])

\* if cbdata.last_gap - gap > epsilon_to_compare_gap
\* (inf - inf and anything with a NaN is a NaN, and no NaN is > epsilon)
Improved(cb_gap, gap) ==
    CASE cb_gap[1] = "nan" \/ gap[1] = "nan" -> FALSE
      [] gap[1] = "inf" -> FALSE
      [] cb_gap[1] = "inf" -> TRUE
      [] OTHER -> RatDiffGT(cb_gap[2], cb_gap[3], gap[2], gap[3],
                            epsilon_to_compare_gap[1], epsilon_to_compare_gap[2])

StalledAtLeast(t, cb_time) == t - cb_time[1] >= max_time_between_gap_updates

\* if time.time() - cbdata.last_gap_change_time > max_time_between_gap_updates
Stalled(t, cb_time) == t - cb_time[1] > max_time_between_gap_updates

Result(g, tm, dec, br, gap, raised) ==
    [last_gap |-> g, last_gap_change_time |-> tm, decision |-> dec,
     branch |-> br, gap |-> gap, raised |-> raised]

StalledOutcomeResetsClock(t, cb_gap, cb_time, gap) ==
    Result(cb_gap, Some(t), "TERMINATE", "stalled", gap, FALSE)

\* the body of the stall test: print(...); model.terminate()
StalledOutcome(t, cb_gap, cb_time, gap) ==
    Result(cb_gap, cb_time, "TERMINATE", "stalled", gap, FALSE)

\* One invocation of callback(): the new cbdata fields, whether model.terminate()
\* was called (decision "TERMINATE"), the branch taken, the gap computed, and
\* whether the invocation ended by an exception (None in the subtraction of line 47)
Evaluate(where, solcount, best_obj, best_bound, t, cb_gap, cb_time) ==
    IF ~IsMIP(where)
    THEN Result(cb_gap, cb_time, "CONTINUE", "not_mip", NotComputed, FALSE)
    ELSE IF NoSolution(solcount)
    THEN Result(cb_gap, cb_time, "CONTINUE", "no_solution", NotComputed, FALSE)
    ELSE LET gap == Gap(best_obj, best_bound) IN
         IF IsFirstSolution(cb_gap)
         THEN Result(gap, Some(t), "CONTINUE", "first", gap, FALSE)
         ELSE IF Improved(cb_gap, gap)
         THEN Result(gap, Some(t), "CONTINUE", "improved", gap, FALSE)
         ELSE IF cb_time = None
         THEN Result(cb_gap, cb_time, "CONTINUE", "type_error", gap, TRUE)
         ELSE IF Stalled(t, cb_time)
         THEN StalledOutcome(t, cb_gap, cb_time, gap)
         ELSE Result(cb_gap, cb_time, "CONTINUE", "waiting", gap, FALSE)

----------------------------------------------------------------------------
(* Snapshots *)

Wheres == {"MIP", "MIPSOL"}

\* MIP_SOLCNT as the solver reports it
SolCounts == 0 .. MaxSolCount

\* MIP_OBJBST, MIP_OBJBND as the solver reports them
ObjValues == {Fin(0), Fin(10000)}

BoundValues == {Fin(10949), Fin(10950), Fin(11000)}

\* seconds by which time.time() is seen to advance between two samples
ClockSteps == {5}

\* the snapshots of a run: gap 0.10 at t = 0, 0.095 at t = 5, 0.0949 at t = 20
StallScenario ==
    << [at |-> 0, best_obj |-> Fin(10000), best_bound |-> Fin(11000)],
       [at |-> 5, best_obj |-> Fin(10000), best_bound |-> Fin(10950)],
       [at |-> 20, best_obj |-> Fin(10000), best_bound |-> Fin(10949)] >>

\* an accessor the invocation did not call
Unread == [kind |-> "unread", val |-> 0]

\* values outside the solver's contract
UncheckedSolCounts == SolCounts \cup {-1}

UncheckedObjValues == {Fin(10000), FloatInf}

UncheckedBoundValues == {Fin(10950), Fin(11000), FloatInf}

NoCall ==
    [where |-> "none", solcount |-> 0, best_obj |-> Unread, best_bound |-> Unread,
     at |-> 0, pre_gap |-> Inf, pre_time |-> None, pre_seen |-> FALSE,
     decision |-> "NONE", branch |-> "none", gap |-> NotComputed, raised |-> FALSE]

----------------------------------------------------------------------------
(* Unit commitment: sets and data *)

\* thermal_units of exercice8 (rows 0, 1 of the matrices of exercice9)
Gens == {"gen1", "gen2"}

Periods == 0 .. NumPeriods - 1

Bits == {0, 1}

\* init_status of both scripts: every unit is off before period 0
init_status == [g \in Gens |-> 0]

----------------------------------------------------------------------------
(* State machine *)

\* CallbackData.__init__ and the start of model.optimize(callback_func)
CallbackInit ==
    /\ last_gap = Inf
    /\ last_gap_change_time = None
    /\ now = 0
    /\ terminated = FALSE
    /\ terminateTime = None
    /\ pc = "optimizing"
    /\ status = "LOADED"
    /\ last_call = NoCall
    /\ seenSolution = FALSE
    /\ firstSolutionTime = None
    /\ scenarioStep = 0
    /\ allZeroObj = TRUE

\* the binaries of the unit-commitment model before any value is chosen
NoAssignment ==
    /\ uc_u = [g \in Gens |-> <<>>]
    /\ uc_v = [g \in Gens |-> <<>>]
    /\ uc_w = [g \in Gens |-> <<>>]
    /\ uc_terms = "unknown"
    /\ uc_matrix = "unknown"

Init ==
    /\ CallbackInit
    /\ uc_init = init_status
    /\ NoAssignment


\* the wall clock advances while the solver searches
Tick ==
    /\ pc = "optimizing"
    /\ \E d \in ClockSteps :
          /\ now + d <= MaxTime
          /\ now' = now + d
    /\ UNCHANGED <<last_gap, last_gap_change_time, terminated, terminateTime, pc, status,
                   last_call,
                   seenSolution, firstSolutionTime, scenarioStep, allZeroObj, ucVars>>

\* the solver invokes callback(model, where, cbdata=callback_data)
Callback(where, solcount, best_obj, best_bound) ==
    /\ pc = "optimizing"
    /\ LET r == Evaluate(where, solcount, best_obj, best_bound, now,
                         last_gap, last_gap_change_time)
           sol == IsMIP(where) /\ solcount > 0
           read == r.branch \notin {"not_mip", "no_solution"}
           cnt == r.branch # "not_mip"
       IN /\ last_gap' = r.last_gap
          /\ last_gap_change_time' = r.last_gap_change_time
          /\ terminated' = (terminated \/ r.decision = "TERMINATE")
          /\ terminateTime' =
                 IF r.decision = "TERMINATE" THEN Some(now) ELSE terminateTime
          /\ last_call' =
                 [where |-> where, solcount |-> IF cnt THEN solcount ELSE 0,
                  best_obj |-> IF read THEN best_obj ELSE Unread,
                  best_bound |-> IF read THEN best_bound ELSE Unread, at |-> now, pre_gap |-> last_gap,
                  pre_time |-> last_gap_change_time, pre_seen |-> seenSolution,
                  decision |-> r.decision, branch |-> r.branch, gap |-> r.gap,
                  raised |-> r.raised]
          /\ seenSolution' = (seenSolution \/ sol)
          /\ firstSolutionTime' =
                 IF sol /\ ~seenSolution THEN Some(now) ELSE firstSolutionTime
          /\ scenarioStep' =
                 IF /\ scenarioStep >= 0
                    /\ scenarioStep < Len(StallScenario)
                    /\ sol
                    /\ StallScenario[scenarioStep + 1] =
                           [at |-> now, best_obj |-> best_obj, best_bound |-> best_bound]
                 THEN scenarioStep + 1
                 ELSE -1
          /\ allZeroObj' =
                 (allZeroObj /\ (sol => (best_obj.kind = "fin" /\ best_obj.val = 0)))
    /\ UNCHANGED <<now, pc, status, ucVars>>

\* model.optimize() returns; the script reads model.status
SolverStops ==
    /\ pc = "optimizing"
    /\ pc' = "done"
    /\ status' = IF terminated THEN "INTERRUPTED" ELSE "OPTIMAL"
    /\ UNCHANGED <<last_gap, last_gap_change_time, now, terminated, terminateTime,
                   last_call,
                   seenSolution, firstSolutionTime, scenarioStep, allZeroObj, ucVars>>

SolverCallback ==
    \E w \in Wheres, s \in SolCounts, o \in ObjValues, b \in BoundValues :
        Callback(w, s, o, b)

UncheckedCallback ==
    \E w \in Wheres, s \in UncheckedSolCounts, o \in UncheckedObjValues,
       b \in UncheckedBoundValues :
        Callback(w, s, o, b)

Next == Tick \/ SolverCallback \/ SolverStops

NextUnchecked == Tick \/ UncheckedCallback \/ SolverStops

\* the run as the solver drives it
Spec == Init /\ [][Next]_vars

\* the callback as a function of arbitrary snapshots
SpecUnchecked == Init /\ [][NextUnchecked]_vars

----------------------------------------------------------------------------
(* Unit commitment: the logical constraints of exercice8.py and exercice9.py *)
(* A matrix of binaries is a function from generators to sequences; period  *)
(* t of the scripts (from 0) is position t + 1 of the sequence.             *)

\* exercice8, logical1_{g}_{t}
Logical1(g, t, init, u, v, w) ==
    IF t = 0
    THEN u[g][t + 1] - init[g] = v[g][t + 1] - w[g][t + 1]
    ELSE u[g][t + 1] - u[g][t] = v[g][t + 1] - w[g][t + 1]

Logical2Omitted(g, t, v, w) == TRUE

\* exercice8, logical2_{g}_{t}
Logical2(g, t, v, w) == v[g][t + 1] + w[g][t + 1] <= 1

\* exercice8: the constraints added by the loop over g and t
TermModelFeasible(init, u, v, w) ==
    \A g \in Gens : \A t \in Periods :
        Logical1(g, t, init, u, v, w) /\ Logical2(g, t, v, w)

\* m[:, j]
Col(m, j) == [g \in Gens |-> m[g][j + 1]]

\* m[:, 1:]
ColsFrom1(m) == [g \in Gens |-> SubSeq(m[g], 2, Len(m[g]))]

\* m[:, :-1]
ColsButLast(m) == [g \in Gens |-> SubSeq(m[g], 1, Len(m[g]) - 1)]

\* elementwise a - b of two vectors
VecSub(a, b) == [g \in Gens |-> a[g] - b[g]]

\* elementwise a - b and a + b of two matrices of the same shape
MatSub(a, b) == [g \in Gens |-> [j \in 1 .. Len(a[g]) |-> a[g][j] - b[g][j]]]

MatAdd(a, b) == [g \in Gens |-> [j \in 1 .. Len(a[g]) |-> a[g][j] + b[g][j]]]

\* exercice9, logical_init: u[:, 0] - init_status == v[:, 0] - w[:, 0]
LogicalInit(init, u, v, w) ==
    VecSub(Col(u, 0), init) = VecSub(Col(v, 0), Col(w, 0))

\* exercice9, logical_dyn: u[:, 1:] - u[:, :-1] == v[:, 1:] - w[:, 1:]
LogicalDyn(u, v, w) ==
    MatSub(ColsFrom1(u), ColsButLast(u)) = MatSub(ColsFrom1(v), ColsFrom1(w))

\* exercice9, logical_excl: v + w <= 1
LogicalExcl(v, w) ==
    \A g \in Gens : \A j \in 1 .. Len(v[g]) : MatAdd(v, w)[g][j] <= 1

\* exercice9: the three vectorised constraints
MatrixModelFeasible(init, u, v, w) ==
    LogicalInit(init, u, v, w) /\ LogicalDyn(u, v, w) /\ LogicalExcl(v, w)

YesNo(b) == IF b THEN "yes" ELSE "no"

\* every period has its values
Assigned == \A g \in Gens : Len(uc_u[g]) = NumPeriods

\* any initial status of the units
InitUC ==
    /\ CallbackInit
    /\ uc_init \in [Gens -> Bits]
    /\ NoAssignment

\* values for the binaries of the next period, for every generator
AssignPeriod ==
    /\ ~Assigned
    /\ \E bu \in [Gens -> Bits], bv \in [Gens -> Bits], bw \in [Gens -> Bits] :
          /\ uc_u' = [g \in Gens |-> Append(uc_u[g], bu[g])]
          /\ uc_v' = [g \in Gens |-> Append(uc_v[g], bv[g])]
          /\ uc_w' = [g \in Gens |-> Append(uc_w[g], bw[g])]
    /\ UNCHANGED <<last_gap, last_gap_change_time, now, terminated, terminateTime, pc,
                   status, last_call, seenSolution, firstSolutionTime, scenarioStep,
                   allZeroObj, uc_init, uc_terms, uc_matrix>>

\* the assignment against the constraints of exercice8
CheckTermModel ==
    /\ Assigned
    /\ uc_terms = "unknown"
    /\ uc_terms' = YesNo(TermModelFeasible(uc_init, uc_u, uc_v, uc_w))
    /\ UNCHANGED <<last_gap, last_gap_change_time, now, terminated, terminateTime, pc,
                   status, last_call, seenSolution, firstSolutionTime, scenarioStep,
                   allZeroObj, uc_init, uc_u, uc_v, uc_w, uc_matrix>>

\* the assignment against the constraints of exercice9
CheckMatrixModel ==
    /\ Assigned
    /\ uc_terms # "unknown"
    /\ uc_matrix = "unknown"
    /\ uc_matrix' = YesNo(MatrixModelFeasible(uc_init, uc_u, uc_v, uc_w))
    /\ UNCHANGED <<last_gap, last_gap_change_time, now, terminated, terminateTime, pc,
                   status, last_call, seenSolution, firstSolutionTime, scenarioStep,
                   allZeroObj, uc_init, uc_u, uc_v, uc_w, uc_terms>>

NextUC == AssignPeriod \/ CheckTermModel \/ CheckMatrixModel

\* the feasible sets of the two unit-commitment formulations
SpecUC == InitUC /\ [][NextUC]_vars

----------------------------------------------------------------------------
(* Properties of the callback *)

\* the most recent invocation was a MIP event with no feasible solution yet
NoSolutionCall == last_call.where = "MIP" /\ last_call.solcount = 0

\* the most recent invocation was a MIP event with solcount > 0
SolutionCall == last_call.where = "MIP" /\ last_call.solcount > 0

\* the most recent invocation left cbdata as it found it
StateKept ==
    /\ last_gap = last_call.pre_gap
    /\ last_gap_change_time = last_call.pre_time

\* seconds between the recorded last gap change and the most recent invocation
ElapsedAtCall == last_call.at - last_call.pre_time[1]

\* the most recent invocation found the gap lower than the stored one by more
\* than epsilon_to_compare_gap (both finite)
DecreaseExceedsEpsilon ==
    /\ last_call.pre_gap[1] = "fin"
    /\ last_call.gap[1] = "fin"
    /\ RatDiffGT(last_call.pre_gap[2], last_call.pre_gap[3],
                 last_call.gap[2], last_call.gap[3],
                 epsilon_to_compare_gap[1], epsilon_to_compare_gap[2])

\* C1: a MIP snapshot with solcount == 0 never asks for termination and leaves
\* last_gap and last_gap_change_time as they were, whatever the time elapsed.
C1_NoSolutionContinuesAndKeepsState ==
    NoSolutionCall => (last_call.decision = "CONTINUE" /\ StateKept)

\* a solcount == 0 snapshot arriving when the stored gap is finite and more than
\* max_time_between_gap_updates has passed since its last change
C1_Witness ==
    /\ NoSolutionCall
    /\ last_call.pre_gap[1] = "fin"
    /\ last_call.pre_time # None
    /\ ElapsedAtCall > max_time_between_gap_updates

\* C2: with a fixed gap and no improvement after the first solution snapshot, a
\* call made before max_time_between_gap_updates has elapsed since the last
\* recorded change continues, and a call made after it has elapsed terminates
\* (the instant of exactly max_time_between_gap_updates is left open here).
C2_FixedGapStallDecision ==
    (SolutionCall /\ last_call.pre_seen /\ GapEq(last_call.gap, last_call.pre_gap))
        => /\ ElapsedAtCall < max_time_between_gap_updates
                => last_call.decision = "CONTINUE"
           /\ ElapsedAtCall > max_time_between_gap_updates
                => last_call.decision = "TERMINATE"

C4_ZeroObjectiveClockFromFirstSolution ==
    /\ (SolutionCall /\ last_call.best_obj = Fin(0)) => last_call.gap = Inf
    /\ (SolutionCall /\ allZeroObj)
         => /\ last_call.at - firstSolutionTime[1] <= max_time_between_gap_updates
                 => last_call.decision = "CONTINUE"
            /\ last_gap_change_time = firstSolutionTime

\* C5: the first snapshot with solcount > 0 continues and leaves the monitor
\* tracking, i.e. the next solution snapshot will not be taken for a first one,
\* whatever gap that first snapshot carries.
C5_FirstSolutionEntersTracking ==
    (SolutionCall /\ ~last_call.pre_seen)
        => (last_call.decision = "CONTINUE" /\ ~IsFirstSolution(last_gap))

\* C6: last_gap never increases: after every invocation it is less than or
\* equal to what it was before the invocation.
C6_LastGapNeverIncreases ==
    last_call.where # "none" => GapLE(last_gap, last_call.pre_gap)

\* a snapshot reporting a gap larger than the stored finite one
C6_Witness ==
    /\ SolutionCall
    /\ last_call.pre_gap[1] = "fin"
    /\ last_call.gap[1] = "fin"
    /\ ~GapLE(last_call.gap, last_call.pre_gap)

\* C7: last_gap_change_time is set exactly when some snapshot with
\* solcount > 0 has been evaluated.
C7_TimeSetIffSolutionSeen ==
    (last_gap_change_time # None) <=> seenSolution

\* a solution with best_obj == 0 has been seen: the time is set although the
\* stored gap is still infinite, and a solcount == 0 snapshot followed
C7_Witness ==
    /\ seenSolution
    /\ last_gap_change_time # None
    /\ last_gap = Inf
    /\ NoSolutionCall

\* C8: once a first solution has been recorded the first-solution branch is
\* never taken again, whatever the later snapshots.
C8_FirstSolutionBranchOnlyOnce ==
    last_call.branch = "first" => ~last_call.pre_seen

\* the most recent invocation carried a snapshot outside the input constraints
InvalidSnapshotCall ==
    /\ last_call.where = "MIP"
    /\ \/ last_call.solcount < 0
       \/ /\ last_call.solcount # 0
          /\ \/ last_call.best_obj.kind = "inf"
             \/ last_call.best_bound.kind = "inf"

\* C9 (as stated): an invalid snapshot is rejected: the invocation signals an
\* error and leaves last_gap and last_gap_change_time unchanged.
C9_InvalidSnapshotRejected ==
    InvalidSnapshotCall => (last_call.raised /\ StateKept)

\* C9 (amended): the callback validates nothing and signals nothing: an invalid
\* snapshot goes through the same tests as a solution snapshot, and when the
\* stored gap is still infinite it is recorded as the first solution.
C9_InvalidSnapshotProcessed ==
    InvalidSnapshotCall
        => /\ ~last_call.raised
           /\ last_call.branch \in {"first", "improved", "stalled", "waiting"}
           /\ IsFirstSolution(last_call.pre_gap)
                => /\ last_gap = last_call.gap
                   /\ last_gap_change_time = Some(last_call.at)

\* a snapshot with a negative solution count was recorded as the first solution
C9_Witness ==
    /\ InvalidSnapshotCall
    /\ last_call.solcount < 0
    /\ last_call.branch = "first"
    /\ last_gap_change_time = Some(last_call.at)

GapImproved ==
    \/ DecreaseExceedsEpsilon
    \/ (last_call.pre_gap[1] = "inf" /\ last_call.gap[1] = "fin")

\* C11: model.terminate() is called only on a snapshot with solcount > 0 that
\* is neither the first solution snapshot nor an improvement, and only when more
\* than max_time_between_gap_updates has passed since the last recorded change;
\* in the remaining non-improving case the callback continues and changes nothing.
C11_TerminateOnlyOnStallElseKeep ==
    /\ last_call.decision = "TERMINATE"
         => /\ SolutionCall
            /\ last_call.pre_seen
            /\ ~GapImproved
            /\ ElapsedAtCall > max_time_between_gap_updates
    /\ ( /\ SolutionCall
         /\ last_call.pre_seen
         /\ ~GapImproved
         /\ ~(ElapsedAtCall > max_time_between_gap_updates) )
         => (last_call.decision = "CONTINUE" /\ StateKept)

\* C12: a termination request is not latched and changes no field of cbdata:
\* as long as no gap change has been recorded since a request, every further
\* non-improving solution snapshot requests termination again, and a snapshot
\* improving the gap by more than epsilon continues and records the current time.
C12_TerminateRepeatsUntilImprovement ==
    /\ last_call.decision = "TERMINATE" => StateKept
    /\ ( /\ SolutionCall
         /\ ~DecreaseExceedsEpsilon
         /\ terminateTime # None
         /\ last_call.pre_time # None
         /\ last_call.pre_time[1] < terminateTime[1] )
         => last_call.decision = "TERMINATE"
    /\ (SolutionCall /\ terminated /\ DecreaseExceedsEpsilon)
         => /\ last_call.decision = "CONTINUE"
            /\ last_gap_change_time = Some(last_call.at)

\* after a termination request, an improving snapshot was delivered and continued
C12_Witness ==
    /\ terminated
    /\ SolutionCall
    /\ DecreaseExceedsEpsilon
    /\ last_call.decision = "CONTINUE"
    /\ terminateTime # None
    /\ last_call.pre_time[1] < terminateTime[1]

\* C13: whenever the stall test of line 47 is reached, last_gap_change_time is
\* a timestamp, not None, so the subtraction does not fail.
C13_StallTestHasTimestamp ==
    last_call.branch \in {"stalled", "waiting", "type_error"}
        => (last_call.pre_time # None /\ ~last_call.raised)

\* the stall test was reached by a snapshot with best_obj == 0 (gap = inf)
C13_Witness ==
    /\ last_call.branch \in {"stalled", "waiting"}
    /\ last_call.best_obj = Fin(0)
    /\ last_call.pre_time # None

\* the most recent invocation was for an event other than GRB.Callback.MIP
NotMIPCall == last_call.where \notin {"MIP", "none"}

\* C14: an invocation for an event other than MIP returns at once: it reads no
\* snapshot, leaves last_gap and last_gap_change_time unchanged and does not
\* call model.terminate(), whatever the time elapsed.
C14_OtherEventsIgnored ==
    NotMIPCall
        => /\ last_call.branch = "not_mip"
           /\ last_call.best_obj = Unread
           /\ last_call.best_bound = Unread
           /\ last_call.gap = NotComputed
           /\ last_call.decision = "CONTINUE"
           /\ StateKept

\* such an invocation arriving when the stored gap is finite and more than
\* max_time_between_gap_updates has passed since its last change
C14_Witness ==
    /\ NotMIPCall
    /\ last_call.pre_gap[1] = "fin"
    /\ last_call.pre_time # None
    /\ ElapsedAtCall > max_time_between_gap_updates

----------------------------------------------------------------------------
(* Properties of the unit-commitment constraints *)

\* status of unit g before period t: init_status[g] for t = 0, u[g, t-1] after
StatusBefore(g, t) == IF t = 0 THEN uc_init[g] ELSE uc_u[g][t]

\* v and w of unit g at period t are the start-up and shut-down indicators
StartStopIndicators(g, t) ==
    LET before == StatusBefore(g, t)
        after == uc_u[g][t + 1]
        v == uc_v[g][t + 1]
        w == uc_w[g][t + 1]
    IN /\ (v = 1) <=> (before = 0 /\ after = 1)
       /\ (w = 1) <=> (before = 1 /\ after = 0)
       /\ (before = after) => (v = 0 /\ w = 0)

\* C15: in both formulations, every assignment of the binaries that satisfies
\* the logical constraints has v[g,t] = 1 exactly when unit g goes from off to on
\* at t, w[g,t] = 1 exactly when it goes from on to off, and v = w = 0 when the
\* status does not change; and the two formulations accept the same assignments.
C15_StartStopAndSameFeasibleSet ==
    /\ (uc_terms # "unknown" /\ uc_matrix # "unknown") => uc_terms = uc_matrix
    /\ (uc_terms = "yes" \/ uc_matrix = "yes")
         => \A g \in Gens : \A t \in Periods : StartStopIndicators(g, t)

\* an assignment accepted by both formulations in which one unit starts up and
\* one unit shuts down
C15_Witness ==
    /\ uc_terms = "yes"
    /\ uc_matrix = "yes"
    /\ \E g \in Gens : \E t \in Periods : uc_v[g][t + 1] = 1
    /\ \E g \in Gens : \E t \in Periods : uc_w[g][t + 1] = 1

====
